---- MODULE Spec2Model ----
(***************************************************************************)
(* DearDayOne (src/deardayone.py): incremental export of the pages of a    *)
(* reMarkable notebook to Day One.  The model follows run_export and       *)
(* run_setup step by step, one action per piece of code between two        *)
(* externally visible effects (file reads and writes, tool invocations),   *)
(* so that a process can be terminated between any two of them.            *)
(***************************************************************************)
EXTENDS Integers, Sequences, FiniteSets, TLC

\* ------------------------------------------------------------------ bounds
MaxPages == 3      \* identifiers a notebook's page list draws from, and its length
MaxRuns == 4       \* processes (export, dry run, setup) started in one behaviour
MaxFaults == 2     \* things going wrong around the program in one behaviour:
                   \* a tool or a save failing, the process killed, the store changing
MaxChars == 2      \* length of a timestamp written as a string in a page entry
MaxTags == 2       \* tags given to create_dayone_entry

\* ------------------------------------------------------------------ store
Guids == {1, 2}                \* notebooks of the document store
PageIds == 1..MaxPages
NoId == 0                      \* a declared page entry without an "id" key

Range(s) == { s[k] : k \in 1..Len(s) }

\* Declared page lists (cPages.pages of <guid>.content).  The program only
\* compares page identifiers for equality, so one numbering per shape is
\* enough: k pages numbered downwards (declared order differs from identifier
\* order), with at most one entry without an identifier, anywhere.
IdList(k) == [n \in 1..k |-> MaxPages + 1 - n]

InsertAt(s, pos, e) == SubSeq(s, 1, pos - 1) \o <<e>> \o SubSeq(s, pos, Len(s))

DeclaredLists ==
    { IdList(k) : k \in 0..MaxPages } \cup
    UNION { { InsertAt(IdList(k), pos, NoId) : pos \in 1..(k + 1) } :
            k \in 0..(MaxPages - 1) }

\* The second notebook of the store: one page, with its stroke file.
OtherNotebookPages == <<1>>

\* ------------------------------------------------------------------ state
VARIABLES
    \* the document store (data_dir)
    pages,          \* guid -> declared page entries of <guid>.content
    rm,             \* guid -> page identifiers with a <guid>/<id>.rm file
    metadata,       \* guids with a <guid>.metadata descriptor
    content,        \* guids whose <guid>.content exists and parses
    \* the persisted configuration
    CONFIG_FILE,
    \* the running process
    pc, mode,
    config,         \* the loaded / built configuration
    exported,       \* run_export: set(config["exported_pages"])
    page_infos,     \* run_export: result of get_page_list
    to_export,      \* run_export: pending pages, <<i, page_id>> records
    idx,            \* position of the loop over to_export (1-based)
    exported_count, error_count,
    selected,       \* run_setup: selected notebook guid
    \* observation of the run (what the tools and the operator see)
    outcome,        \* how the last process ended ("running" while one runs)
    convLog,        \* page ids handed to convert_rm_to_png by this process
    pubLog,         \* <<page_num, page_id>> of entries created by this process
    saveLog,        \* page ids for which this process called save_config
    failed,         \* page ids counted in error_count by this process
    fileAtStart,    \* CONFIG_FILE when this process started
    savedAtStart,   \* pages whose save had completed when this process started
    \* history over the whole behaviour
    runs,           \* processes started
    faults,         \* tool failures, save failures, kills and store changes so far
    published,      \* page id -> entries created in Day One since the configured notebook was selected
    lost,           \* page id -> processes that ended having published the page without its record persisted
    saved,          \* [guid, pages]: pages persisted since the configured notebook was selected
    everSaved,      \* guid -> pages ever persisted for that notebook
    last,           \* what the last process left behind: [run, saving, owed, kept, failed]
    prev,           \* the same for the process before the running one
    intact,         \* no process was terminated and no save_config call failed so far
    \* a function of the program studied on its own
    call,           \* the function and its arguments
    result          \* what it returned or raised

store == <<pages, rm, metadata, content>>
memory == <<config, exported, page_infos, to_export, idx, exported_count,
            error_count, selected>>
logs == <<convLog, pubLog, saveLog, failed, savedAtStart>>
proc == <<pc, mode, memory>>
obs == <<outcome, logs, fileAtStart>>
hist == <<runs, faults, published, lost, saved, everSaved, last, prev, intact>>
func == <<call, result>>
vars == <<store, CONFIG_FILE, proc, obs, hist, func>>

\* ------------------------------------------------------------------ file
Absent == [st |-> "absent", guid |-> 0, exported_pages |-> {}]
\* open(CONFIG_FILE, "w") has truncated the file and json.dump has not finished
Partial == [st |-> "partial", guid |-> 0, exported_pages |-> {}]
Json(g, e) == [st |-> "json", guid |-> g, exported_pages |-> e]
NoConfig == [st |-> "none", guid |-> 0, exported_pages |-> {}]

\* (variant: the exported pages are not read back)
load_config_Forgetful(file) ==
    CASE file.st = "absent" -> [res |-> "none", cfg |-> NoConfig]
      [] file.st = "partial" -> [res |-> "error", cfg |-> NoConfig]
      [] OTHER -> [res |-> "ok", cfg |-> [file EXCEPT !.exported_pages = {}]]

\* load_config: None when the file does not exist, the parsed content when it
\* is complete, a JSONDecodeError when it is empty or cut short.
load_config(file) ==
    CASE file.st = "absent" -> [res |-> "none", cfg |-> NoConfig]
      [] file.st = "partial" -> [res |-> "error", cfg |-> NoConfig]
      [] OTHER -> [res |-> "ok", cfg |-> file]

\* save_config, first half: mkdir, open(CONFIG_FILE, "w") truncates the file.
save_config_open(file) == Partial

\* (variant: the exported pages are not written)
save_config_dump_NoPages(file, cfg) == Json(cfg.guid, {})

\* save_config, second half: json.dump writes the configuration and the file
\* is closed.
save_config_dump(file, cfg) == Json(cfg.guid, cfg.exported_pages)

\* ------------------------------------------------------------------ pages
\* get_page_list: entries without "id" are dropped, order kept.
RECURSIVE get_page_list(_)
get_page_list(raw) ==
    IF raw = <<>> THEN <<>>
    ELSE IF Head(raw) = NoId THEN get_page_list(Tail(raw))
         ELSE <<Head(raw)>> \o get_page_list(Tail(raw))

\* run_export, "Determine what needs exporting": enumerate(page_infos), skip
\* the exported pages and the pages without a stroke file.  i is 0-based.
RECURSIVE ToExportFrom(_, _, _, _)
ToExportFrom(infos, k, exp, rmfiles) ==
    IF k > Len(infos) THEN <<>>
    ELSE LET page_id == infos[k]
             rest == ToExportFrom(infos, k + 1, exp, rmfiles)
         IN  IF page_id \in exp THEN rest
             ELSE IF page_id \notin rmfiles THEN rest
             ELSE <<[i |-> k - 1, page_id |-> page_id]>> \o rest

\* (variant: the exported pages are not skipped)
ComputeToExport_NoSkip(infos, exp, rmfiles) == ToExportFrom(infos, 1, {}, rmfiles)

\* (variant: the stroke file is not looked for)
ComputeToExport_NoRmCheck(infos, exp, rmfiles) ==
    ToExportFrom(infos, 1, exp, Range(infos))

ComputeToExport(infos, exp, rmfiles) == ToExportFrom(infos, 1, exp, rmfiles)

\* (variant: the dry-run flag is not honoured)
DryRun_Ignored(m) == FALSE

\* `if dry_run:` of line 387
DryRun(m) == m = "dry"

\* (variant: the 0-based index is printed)
PageNum_ZeroBased(entry) == entry.i

\* page_num = i + 1, the number in the body "Page <page_num> of <name>"
PageNum(entry) == entry.i + 1

\* (variant: setup always starts from an empty set)
SetupExportedPages_Discard(existing, guid) == {}

\* (variant: the set is carried over whatever notebook it was for)
SetupExportedPages_KeepAlways(existing, guid) ==
    IF existing.res = "ok" THEN existing.cfg.exported_pages ELSE {}

\* run_setup: exported_pages carried over when the existing configuration is
\* for the selected notebook, empty otherwise.
SetupExportedPages(existing, guid) ==
    IF existing.res = "ok" /\ existing.cfg.guid = guid
    THEN existing.cfg.exported_pages
    ELSE {}

\* ------------------------------------------------------------------ functions
\* Values of a key of a page entry of <guid>.content, as json.load gives them:
\* no such key, null, a string, a number.
Chars == {"0", "7", "x"}
Digits == {"0", "7"}
Strings == UNION { [1..n -> Chars] : n \in 0..MaxChars }
Missing == [t |-> "missing", s |-> <<>>, n |-> 0]
Null == [t |-> "null", s |-> <<>>, n |-> 0]
Str(s) == [t |-> "str", s |-> s, n |-> 0]
Num(n) == [t |-> "num", s |-> <<>>, n |-> n]
JsonValues == {Missing, Null} \cup { Str(s) : s \in Strings } \cup { Num(n) : n \in {0, 7} }

\* p.get(key, default)
Get(value, default) == IF value = Missing THEN default ELSE value

\* truth value of a Python object: None, "" and 0 are false
Truthy(v) ==
    CASE v.t = "null" -> FALSE
      [] v.t = "str" -> v.s # <<>>
      [] v.t = "num" -> v.n # 0
      [] OTHER -> FALSE

DigitValue(c) == IF c = "7" THEN 7 ELSE 0

RECURSIVE DecimalValue(_)
DecimalValue(s) ==
    IF s = <<>> THEN 0
    ELSE 10 * DecimalValue(SubSeq(s, 1, Len(s) - 1)) + DigitValue(s[Len(s)])

\* int(v): the number itself, the value of a string of digits, ValueError for
\* any other string
int(v) ==
    CASE v.t = "num" -> [res |-> "ok", n |-> v.n]
      [] v.t = "str" /\ v.s # <<>> /\ \A k \in 1..Len(v.s) : v.s[k] \in Digits ->
            [res |-> "ok", n |-> DecimalValue(v.s)]
      [] v.t = "str" -> [res |-> "ValueError", n |-> 0]
      [] OTHER -> [res |-> "TypeError", n |-> 0]

\* The function studied and its arguments: p for get_page_list (one entry of
\* cPages.pages), the five arguments for create_dayone_entry.
NoArgs == [journal |-> "", date_str |-> "", tags |-> <<>>, attachment_path |-> "",
           body_text |-> ""]
NoEntry == [id |-> NoId, modifed |-> Missing, modified |-> Missing]
NoCall == [fn |-> "none", p |-> NoEntry, args |-> NoArgs]
NoResult == [res |-> "none", id |-> NoId, modified_ms |-> 0, cmd |-> <<>>]

\* get_page_list, body of the loop over the declared entries (lines 145-153):
\* the entry is skipped without "id"; else modified_ms is read from "modifed",
\* then "modified", then "0", and converted with int() when it is true.
page_info(p) ==
    IF p.id = NoId THEN [NoResult EXCEPT !.res = "skipped"]
    ELSE LET modified_ms == Get(p.modifed, Get(p.modified, Str(<<"0">>)))
         IN  IF ~Truthy(modified_ms)
             THEN [NoResult EXCEPT !.res = "ok", !.id = p.id]
             ELSE IF int(modified_ms).res = "ok"
                  THEN [NoResult EXCEPT !.res = "ok", !.id = p.id,
                                        !.modified_ms = int(modified_ms).n]
                  ELSE [NoResult EXCEPT !.res = int(modified_ms).res]

DAYONE_BIN == "/usr/local/bin/dayone"

\* (variant: the attachment is given before the tags)
create_dayone_entry_AttachmentFirst(journal, date_str, tags, attachment_path, body_text) ==
    <<DAYONE_BIN>>
    \o (IF journal # "" THEN <<"--journal", journal>> ELSE <<>>)
    \o (IF date_str # "" THEN <<"--date", date_str>> ELSE <<>>)
    \o (IF attachment_path # "" THEN <<"--attachments", attachment_path>> ELSE <<>>)
    \o (IF tags # <<>> THEN <<"--tags">> \o tags ELSE <<>>)
    \o <<"--">>
    \o <<"new", body_text>>

\* create_dayone_entry, the command built at lines 206-216
create_dayone_entry(journal, date_str, tags, attachment_path, body_text) ==
    <<DAYONE_BIN>>
    \o (IF journal # "" THEN <<"--journal", journal>> ELSE <<>>)
    \o (IF date_str # "" THEN <<"--date", date_str>> ELSE <<>>)
    \o (IF tags # <<>> THEN <<"--tags">> \o tags ELSE <<>>)
    \o (IF attachment_path # "" THEN <<"--attachments", attachment_path>> ELSE <<>>)
    \o <<"--">>
    \o <<"new", body_text>>


\* ------------------------------------------------------------------ init
Init ==
    /\ pages \in { [g \in Guids |-> IF g = 1 THEN s ELSE OtherNotebookPages] :
                   s \in DeclaredLists }
    /\ rm \in { [g \in Guids |-> IF g = 1 THEN r ELSE Range(OtherNotebookPages)] :
                r \in SUBSET (Range(pages[1]) \ {NoId}) }
    /\ metadata = Guids
    /\ content = Guids
    /\ CONFIG_FILE = Absent
    /\ pc = "idle" /\ mode = "none"
    /\ config = NoConfig
    /\ exported = {}
    /\ page_infos = <<>>
    /\ to_export = <<>>
    /\ idx = 1
    /\ exported_count = 0 /\ error_count = 0
    /\ selected = 0
    /\ outcome = "none"
    /\ convLog = <<>> /\ pubLog = <<>> /\ saveLog = <<>>
    /\ failed = {}
    /\ fileAtStart = Absent
    /\ savedAtStart = {}
    /\ runs = 0
    /\ faults = 0
    /\ published = [p \in PageIds |-> 0]
    /\ lost = [p \in PageIds |-> 0]
    /\ saved = [guid |-> 0, pages |-> {}]
    /\ everSaved = [g \in Guids |-> {}]
    /\ last = [run |-> "other", saving |-> FALSE, owed |-> {}, kept |-> {}, failed |-> {}]
    /\ prev = [run |-> "other", saving |-> FALSE, owed |-> {}, kept |-> {}, failed |-> {}]
    /\ intact = TRUE
    /\ call = NoCall
    /\ result = NoResult

\* ------------------------------------------------------------------ process ends
\* Something outside the program goes wrong (bounded, to keep the model finite).
Fault ==
    /\ faults < MaxFaults
    /\ faults' = faults + 1

PagesOf(log) == { log[k][2] : k \in 1..Len(log) }

\* Pages this process published that the configuration file does not hold.
Unpersisted(file, log) ==
    { p \in PagesOf(log) : ~(file.st = "json" /\ p \in file.exported_pages) }

Nothing == [run |-> "other", saving |-> FALSE, owed |-> {}, kept |-> {}, failed |-> {}]

\* The process ends (return, sys.exit, uncaught exception or kill): its memory
\* is gone.  `left` records what it leaves to the next process: run is
\* "exported" (went through its pending pages, none failed), "retry" (some
\* failed, the pages of `failed`), "nothing" (none was pending), "killed"
\* (terminated: `saving` when inside save_config, `owed` the page published
\* whose save had not completed, `kept` the pages published and saved) or
\* "other".
Finish(out, left) ==
    /\ pc' = "idle"
    /\ outcome' = out
    /\ last' = left
    /\ lost' = [p \in PageIds |->
                  IF p \in Unpersisted(CONFIG_FILE, pubLog)
                  THEN lost[p] + 1 ELSE lost[p]]
    /\ config' = NoConfig
    /\ exported' = {}
    /\ page_infos' = <<>>
    /\ to_export' = <<>>
    /\ idx' = 1
    /\ exported_count' = 0 /\ error_count' = 0
    /\ selected' = 0
    /\ convLog' = <<>> /\ pubLog' = <<>> /\ saveLog' = <<>>
    /\ failed' = {}
    /\ savedAtStart' = {}

\* Exit status of the process for each way it ends: sys.exit(1) and an
\* uncaught exception give 1, a return and sys.exit(0) give 0 (a run that
\* counted errors returns too), a terminated process a non-zero status.
ExitCode(out) ==
    CASE out \in {"no_config", "notebook_missing", "no_notebooks"} -> 1
      [] out \in {"load_error", "content_error", "save_error"} -> 1
      [] out = "crashed" -> 1
      [] OTHER -> 0

Continue(next) ==
    /\ pc' = next
    /\ UNCHANGED <<outcome, last, lost>>

\* A process is started from the command line (main).
Start(m, first) ==
    /\ pc = "idle"
    /\ runs < MaxRuns
    /\ runs' = runs + 1
    /\ pc' = first
    /\ mode' = m
    /\ outcome' = "running"
    /\ fileAtStart' = CONFIG_FILE
    /\ savedAtStart' = saved.pages
    /\ prev' = last
    /\ last' = Nothing
    /\ UNCHANGED <<func, store, CONFIG_FILE, memory, convLog, pubLog, saveLog, failed,
                   faults, published, lost, saved, everSaved, intact>>

StartExport == Start("export", "load")
StartDryRun == Start("dry", "load")
StartSetup == Start("setup", "discover")

\* ------------------------------------------------------------------ run_export
\* (variant: the exported set starts empty)
Load_EmptySet ==
    /\ pc = "load"
    /\ LET r == load_config(CONFIG_FILE)
       IN  CASE r.res = "error" -> Finish("load_error", Nothing)
             [] r.res = "none" -> Finish("no_config", Nothing)
             [] OTHER ->
                  /\ config' = r.cfg
                  /\ exported' = {}
                  /\ Continue("validate")
                  /\ UNCHANGED <<page_infos, to_export, idx, exported_count,
                                 error_count, selected, logs>>
    /\ UNCHANGED <<func, store, CONFIG_FILE, mode, fileAtStart, runs, faults,
                   published, saved, everSaved, prev, intact>>

\* lines 332-340
Load ==
    /\ pc = "load"
    /\ LET r == load_config(CONFIG_FILE)
       IN  CASE r.res = "error" -> Finish("load_error", Nothing)
             [] r.res = "none" -> Finish("no_config", Nothing)
             [] OTHER ->
                  /\ config' = r.cfg
                  /\ exported' = r.cfg.exported_pages
                  /\ Continue("validate")
                  /\ UNCHANGED <<page_infos, to_export, idx, exported_count,
                                 error_count, selected, logs>>
    /\ UNCHANGED <<func, store, CONFIG_FILE, mode, fileAtStart, runs, faults,
                   published, saved, everSaved, prev, intact>>

\* (variant: the metadata descriptor is not looked for)
Validate_Skipped ==
    /\ pc = "validate"
    /\ Continue("resolve") /\ UNCHANGED <<memory, logs>>
    /\ UNCHANGED <<func, store, CONFIG_FILE, mode, fileAtStart, runs, faults,
                   published, saved, everSaved, prev, intact>>

\* lines 342-348
Validate ==
    /\ pc = "validate"
    /\ IF config.guid \notin metadata
       THEN Finish("notebook_missing", Nothing)
       ELSE Continue("resolve") /\ UNCHANGED <<memory, logs>>
    /\ UNCHANGED <<func, store, CONFIG_FILE, mode, fileAtStart, runs, faults,
                   published, saved, everSaved, prev, intact>>

\* lines 350-356 (get_page_list raises when the content descriptor is missing
\* or malformed)
Resolve ==
    /\ pc = "resolve"
    /\ IF config.guid \notin content
       THEN Finish("content_error", Nothing)
       ELSE IF get_page_list(pages[config.guid]) = <<>>
            THEN Finish("no_pages", Nothing)
            ELSE /\ page_infos' = get_page_list(pages[config.guid])
                 /\ Continue("diff")
                 /\ UNCHANGED <<config, exported, to_export, idx,
                                exported_count, error_count, selected, logs>>
    /\ UNCHANGED <<func, store, CONFIG_FILE, mode, fileAtStart, runs, faults,
                   published, saved, everSaved, prev, intact>>

\* lines 358-396
Diff ==
    /\ pc = "diff"
    /\ LET pending == ComputeToExport(page_infos, exported, rm[config.guid])
       IN  IF pending = <<>>
           THEN Finish("nothing", [Nothing EXCEPT !.run = "nothing"])
           ELSE IF DryRun(mode)
                THEN Finish("dry_run", Nothing)
                ELSE /\ to_export' = pending
                     /\ Continue("convert")
                     /\ UNCHANGED <<config, exported, page_infos, idx,
                                    exported_count, error_count, selected, logs>>
    /\ UNCHANGED <<func, store, CONFIG_FILE, mode, fileAtStart, runs, faults,
                   published, saved, everSaved, prev, intact>>

Current == to_export[idx]

\* the for loop of line 399 moves to its next page, or ends
NextPage ==
    /\ idx' = idx + 1
    /\ Continue(IF idx + 1 > Len(to_export) THEN "summary" ELSE "convert")

\* (variant: the first failure ends the loop)
PageFailed_Abort ==
    /\ error_count' = error_count + 1
    /\ failed' = failed \cup {Current.page_id}
    /\ idx' = idx + 1
    /\ Continue("summary")

\* except RuntimeError / except Exception, lines 423-428
PageFailed ==
    /\ error_count' = error_count + 1
    /\ failed' = failed \cup {Current.page_id}
    /\ NextPage

\* lines 399-408: convert_rm_to_png returns
ConvertOk ==
    /\ pc = "convert"
    /\ convLog' = Append(convLog, Current.page_id)
    /\ Continue("publish")
    /\ UNCHANGED <<func, store, CONFIG_FILE, mode, memory, pubLog, saveLog, failed,
                   savedAtStart, fileAtStart, runs, faults, published, saved,
                   everSaved, prev, intact>>

\* lines 399-408, 423-428: convert_rm_to_png raises
ConvertFails ==
    /\ pc = "convert"
    /\ Fault
    /\ convLog' = Append(convLog, Current.page_id)
    /\ PageFailed
    /\ UNCHANGED <<func, store, CONFIG_FILE, mode, config, exported, page_infos,
                   to_export, exported_count, selected, pubLog, saveLog,
                   savedAtStart, fileAtStart, runs, published, saved,
                   everSaved, prev, intact>>

\* lines 410-413: create_dayone_entry returns, the entry exists
PublishOk ==
    /\ pc = "publish"
    /\ pubLog' = Append(pubLog, <<PageNum(Current), Current.page_id>>)
    /\ published' = [published EXCEPT ![Current.page_id] = @ + 1]
    /\ Continue("save")
    /\ UNCHANGED <<func, store, CONFIG_FILE, mode, memory, convLog, saveLog, failed,
                   savedAtStart, fileAtStart, runs, faults, saved, everSaved,
                   prev, intact>>

\* lines 410-413, 423-428: create_dayone_entry raises
PublishFails ==
    /\ pc = "publish"
    /\ Fault
    /\ PageFailed
    /\ UNCHANGED <<func, store, CONFIG_FILE, mode, config, exported, page_infos,
                   to_export, exported_count, selected, convLog, pubLog,
                   saveLog, savedAtStart, fileAtStart, runs, published, saved,
                   everSaved, prev, intact>>

\* (variant: every pending page is marked at the first success)
TrackExported_All ==
    /\ exported' = exported \cup { to_export[k].page_id : k \in 1..Len(to_export) }
    /\ config' = [config EXCEPT !.exported_pages = exported']
    /\ saveLog' = Append(saveLog, Current.page_id)

\* (variant: the configuration is saved twice for the page)
TrackExported_Twice ==
    /\ exported' = exported \cup {Current.page_id}
    /\ config' = [config EXCEPT !.exported_pages = exported']
    /\ saveLog' = saveLog \o <<Current.page_id, Current.page_id>>

\* lines 416-417
TrackExported ==
    /\ exported' = exported \cup {Current.page_id}
    /\ config' = [config EXCEPT !.exported_pages = exported']
    /\ saveLog' = Append(saveLog, Current.page_id)

\* what a completed save_config leaves behind, for the history
Persisted(cfg) ==
    /\ saved' = IF saved.guid = cfg.guid
                THEN [saved EXCEPT !.pages = @ \cup cfg.exported_pages]
                ELSE [guid |-> cfg.guid, pages |-> cfg.exported_pages]
    /\ everSaved' = [everSaved EXCEPT ![cfg.guid] = @ \cup cfg.exported_pages]

\* lines 416-418 with 34-35: the file is opened for writing (truncated)
SaveOpen ==
    /\ pc = "save"
    /\ TrackExported
    /\ CONFIG_FILE' = save_config_open(CONFIG_FILE)
    /\ Continue("dump")
    /\ UNCHANGED <<func, store, mode, page_infos, to_export, idx, exported_count,
                   error_count, selected, convLog, pubLog, failed, savedAtStart,
                   fileAtStart, runs, faults, published, saved, everSaved, prev, intact>>

\* lines 416-418 with 34-35 and 426-428: mkdir or open raises, the file is
\* as it was
SaveOpenFails ==
    /\ pc = "save"
    /\ Fault
    /\ intact' = FALSE
    /\ TrackExported
    /\ PageFailed
    /\ UNCHANGED <<func, store, CONFIG_FILE, mode, page_infos, to_export,
                   exported_count, selected, convLog, pubLog, savedAtStart,
                   fileAtStart, runs, published, saved, everSaved, prev>>

\* lines 36 and 420-421: json.dump completes, the file is closed
SaveDump ==
    /\ pc = "dump"
    /\ CONFIG_FILE' = save_config_dump(CONFIG_FILE, config)
    /\ Persisted(config)
    /\ exported_count' = exported_count + 1
    /\ NextPage
    /\ UNCHANGED <<func, store, mode, config, exported, page_infos, to_export,
                   error_count, selected, logs, fileAtStart, runs, faults,
                   published, prev, intact>>

\* lines 36 and 426-428: the write raises, the file stays cut short
SaveDumpFails ==
    /\ pc = "dump"
    /\ Fault
    /\ intact' = FALSE
    /\ PageFailed
    /\ UNCHANGED <<func, store, CONFIG_FILE, mode, config, exported, page_infos,
                   to_export, exported_count, selected, convLog, pubLog,
                   saveLog, savedAtStart, fileAtStart, runs, published, saved,
                   everSaved, prev>>

\* lines 430-433
Summary ==
    /\ pc = "summary"
    /\ IF error_count > 0
       THEN Finish("done_retry", [Nothing EXCEPT !.run = "retry", !.failed = failed])
       ELSE Finish("done", [Nothing EXCEPT !.run = "exported"])
    /\ UNCHANGED <<func, store, CONFIG_FILE, mode, fileAtStart, runs, faults,
                   published, saved, everSaved, prev, intact>>

\* ------------------------------------------------------------------ run_setup
\* discover_notebooks keeps the documents with a metadata descriptor and a
\* parseable content descriptor; lines 244-249
Notebooks == metadata \cap content

Discover ==
    /\ pc = "discover"
    /\ IF Notebooks = {}
       THEN Finish("no_notebooks", Nothing)
       ELSE Continue("select") /\ UNCHANGED <<memory, logs>>
    /\ UNCHANGED <<func, store, CONFIG_FILE, mode, fileAtStart, runs, faults,
                   published, saved, everSaved, prev, intact>>

\* lines 258-306: the operator picks a notebook (and a journal)
Select(g) ==
    /\ pc = "select"
    /\ g \in Notebooks
    /\ selected' = g
    /\ Continue("setup_load")
    /\ UNCHANGED <<func, store, CONFIG_FILE, mode, config, exported, page_infos,
                   to_export, idx, exported_count, error_count, logs,
                   fileAtStart, runs, faults, published, saved, everSaved, prev, intact>>

\* lines 267-269, 292-294, 302-304: EOF or interrupt at a prompt
SetupCancelled ==
    /\ pc = "select"
    /\ Finish("cancelled", Nothing)
    /\ UNCHANGED <<func, store, CONFIG_FILE, mode, fileAtStart, runs, faults,
                   published, saved, everSaved, prev, intact>>

\* lines 308-320
SetupLoad ==
    /\ pc = "setup_load"
    /\ LET existing == load_config(CONFIG_FILE)
       IN  IF existing.res = "error"
           THEN Finish("load_error", Nothing)
           ELSE /\ config' = Json(selected, SetupExportedPages(existing, selected))
                /\ Continue("setup_save")
                /\ UNCHANGED <<exported, page_infos, to_export, idx,
                               exported_count, error_count, selected, logs>>
    /\ UNCHANGED <<func, store, CONFIG_FILE, mode, fileAtStart, runs, faults,
                   published, saved, everSaved, prev, intact>>

\* line 321 with 34-35
SetupSaveOpen ==
    /\ pc = "setup_save"
    /\ CONFIG_FILE' = save_config_open(CONFIG_FILE)
    /\ Continue("setup_dump")
    /\ UNCHANGED <<func, store, mode, memory, logs, fileAtStart, runs, faults,
                   published, saved, everSaved, prev, intact>>

\* line 321 with 36, 323-327.  Selecting another notebook starts the history
\* of publications anew.
SetupSaveDump ==
    /\ pc = "setup_dump"
    /\ CONFIG_FILE' = save_config_dump(CONFIG_FILE, config)
    /\ Persisted(config)
    /\ pc' = "idle"
    /\ outcome' = "setup_done"
    /\ last' = Nothing
    /\ IF saved.guid \in {0, config.guid}
       THEN UNCHANGED <<published, lost>>
       ELSE /\ published' = [p \in PageIds |-> 0]
            /\ lost' = [p \in PageIds |-> 0]
    /\ config' = NoConfig
    /\ selected' = 0
    /\ UNCHANGED <<func, store, mode, exported, page_infos, to_export, idx,
                   exported_count, error_count, logs, fileAtStart, runs,
                   faults, prev, intact>>

\* line 321: save_config raises, nothing catches it
SetupSaveFails ==
    /\ pc \in {"setup_save", "setup_dump"}
    /\ Fault
    /\ intact' = FALSE
    /\ Finish("save_error", Nothing)
    /\ UNCHANGED <<func, store, CONFIG_FILE, mode, fileAtStart, runs, published,
                   saved, everSaved, prev>>

\* ------------------------------------------------------------------ environment
\* The process is terminated (kill, power loss) wherever it is.
Crash ==
    /\ pc # "idle"
    /\ Fault
    /\ intact' = FALSE
    /\ Finish("crashed",
              [run |-> "killed",
               saving |-> pc \in {"dump", "setup_dump"},
               owed |-> IF pc \in {"save", "dump"} THEN {Current.page_id} ELSE {},
               kept |-> PagesOf(pubLog) \ Unpersisted(CONFIG_FILE, pubLog),
               failed |-> {}])
    /\ UNCHANGED <<func, store, CONFIG_FILE, mode, fileAtStart, runs, published,
                   saved, everSaved, prev>>

\* Between two processes the configured notebook is deleted from the store
\* (its metadata descriptor goes away) ...
RemoveNotebook(g) ==
    /\ pc = "idle"
    /\ CONFIG_FILE.st = "json" /\ g = CONFIG_FILE.guid
    /\ Fault
    /\ g \in metadata
    /\ metadata' = metadata \ {g}
    /\ last' = Nothing
    /\ UNCHANGED <<func, pages, rm, content, CONFIG_FILE, proc, obs, runs, published,
                   lost, saved, everSaved, prev, intact>>

\* ... or its content descriptor is lost or left malformed by a sync.
BreakContent(g) ==
    /\ pc = "idle"
    /\ CONFIG_FILE.st = "json" /\ g = CONFIG_FILE.guid
    /\ Fault
    /\ g \in content
    /\ content' = content \ {g}
    /\ last' = Nothing
    /\ UNCHANGED <<func, pages, rm, metadata, CONFIG_FILE, proc, obs, runs, published,
                   lost, saved, everSaved, prev, intact>>

\* ------------------------------------------------------------------ spec
Next ==
    \/ StartExport
    \/ StartDryRun
    \/ StartSetup
    \/ Load
    \/ Validate
    \/ Resolve
    \/ Diff
    \/ ConvertOk
    \/ ConvertFails
    \/ PublishOk
    \/ PublishFails
    \/ SaveOpen
    \/ SaveOpenFails
    \/ SaveDump
    \/ SaveDumpFails
    \/ Summary
    \/ Discover
    \/ \E g \in Guids : Select(g)
    \/ SetupCancelled
    \/ SetupLoad
    \/ SetupSaveOpen
    \/ SetupSaveDump
    \/ SetupSaveFails
    \/ Crash
    \/ \E g \in Guids : RemoveNotebook(g)
    \/ \E g \in Guids : BreakContent(g)

Spec == Init /\ [][Next]_vars

\* ------------------------------------------------------------------ repeated export
\* Export is run again and again: once MaxRuns processes were started, further
\* export runs are started without being counted.
Rerun ==
    /\ pc = "idle"
    /\ runs = MaxRuns
    /\ pc' = "load"
    /\ mode' = "export"
    /\ outcome' = "running"
    /\ fileAtStart' = CONFIG_FILE
    /\ savedAtStart' = saved.pages
    /\ prev' = last
    /\ last' = Nothing
    /\ UNCHANGED <<func, store, CONFIG_FILE, memory, convLog, pubLog, saveLog, failed,
                   runs, faults, published, lost, saved, everSaved, intact>>

\* The store is left alone.
LiveNext ==
    \/ StartExport
    \/ StartDryRun
    \/ StartSetup
    \/ Rerun
    \/ Load
    \/ Validate
    \/ Resolve
    \/ Diff
    \/ ConvertOk
    \/ ConvertFails
    \/ PublishOk
    \/ PublishFails
    \/ SaveOpen
    \/ SaveOpenFails
    \/ SaveDump
    \/ SaveDumpFails
    \/ Summary
    \/ Discover
    \/ \E g \in Guids : Select(g)
    \/ SetupCancelled
    \/ SetupLoad
    \/ SetupSaveOpen
    \/ SetupSaveDump
    \/ SetupSaveFails
    \/ Crash

\* a step of a running process in which nothing goes wrong
ProgramStep ==
    \/ Load \/ Validate \/ Resolve \/ Diff
    \/ ConvertOk \/ PublishOk \/ SaveOpen \/ SaveDump \/ Summary
    \/ Discover \/ (\E g \in Guids : Select(g))
    \/ SetupLoad \/ SetupSaveOpen \/ SetupSaveDump

\* A started process goes on until it ends (the program is sequential and its
\* tools return), and export is started again whenever no process runs.
\* Failures, terminations included, are MaxFaults at most, so they do not go
\* on forever.
LiveSpec ==
    /\ Init
    /\ [][LiveNext]_vars
    /\ WF_vars(ProgramStep)
    /\ WF_vars(StartExport \/ Rerun)


\* ------------------------------------------------------------------ functions on their own
PageEntries ==
    [id : {NoId, 1}, modifed : JsonValues, modified : JsonValues]

TagLists == UNION { [1..n -> {"reMarkable", "Journal 1"}] : n \in 0..MaxTags }

EntryArgs ==
    [journal : {"", "Journal"}, date_str : {"", "2024-03-01 10:00:00"},
     tags : TagLists, attachment_path : {"", "page.png"},
     body_text : {"Page 1 of Journal 1", "--tags"}]

Calls ==
    { [NoCall EXCEPT !.fn = "get_page_list", !.p = p] : p \in PageEntries } \cup
    { [NoCall EXCEPT !.fn = "create_dayone_entry", !.args = a] : a \in EntryArgs }

\* No process runs; one call of one function with arguments of any form.
FuncInit ==
    /\ pages = [g \in Guids |-> OtherNotebookPages]
    /\ rm = [g \in Guids |-> Range(OtherNotebookPages)]
    /\ metadata = Guids
    /\ content = Guids
    /\ CONFIG_FILE = Absent
    /\ pc = "idle" /\ mode = "none"
    /\ config = NoConfig
    /\ exported = {}
    /\ page_infos = <<>>
    /\ to_export = <<>>
    /\ idx = 1
    /\ exported_count = 0 /\ error_count = 0
    /\ selected = 0
    /\ outcome = "none"
    /\ convLog = <<>> /\ pubLog = <<>> /\ saveLog = <<>>
    /\ failed = {}
    /\ fileAtStart = Absent
    /\ savedAtStart = {}
    /\ runs = 0
    /\ faults = 0
    /\ published = [p \in PageIds |-> 0]
    /\ lost = [p \in PageIds |-> 0]
    /\ saved = [guid |-> 0, pages |-> {}]
    /\ everSaved = [g \in Guids |-> {}]
    /\ last = Nothing
    /\ prev = Nothing
    /\ intact = TRUE
    /\ call \in Calls
    /\ result = NoResult

\* get_page_list handles one declared entry
PageInfo ==
    /\ call.fn = "get_page_list"
    /\ result = NoResult
    /\ result' = page_info(call.p)
    /\ UNCHANGED <<call, store, CONFIG_FILE, proc, obs, hist>>

\* create_dayone_entry builds its command
BuildCommand ==
    /\ call.fn = "create_dayone_entry"
    /\ result = NoResult
    /\ result' = [NoResult EXCEPT
                    !.res = "ok",
                    !.cmd = create_dayone_entry(call.args.journal, call.args.date_str,
                                                call.args.tags, call.args.attachment_path,
                                                call.args.body_text)]
    /\ UNCHANGED <<call, store, CONFIG_FILE, proc, obs, hist>>

FuncNext ==
    \/ PageInfo
    \/ BuildCommand

FuncSpec == FuncInit /\ [][FuncNext]_vars


\* ------------------------------------------------------------------ properties
Exporting == pc \in {"convert", "publish", "save", "dump", "summary"}
PendingIds == { to_export[k].page_id : k \in 1..Len(to_export) }
PendingSeq == [k \in 1..Len(to_export) |-> to_export[k].page_id]
Published == PagesOf(pubLog)
Persists(p) == CONFIG_FILE.st = "json" /\ p \in CONFIG_FILE.exported_pages

\* C1 (as claimed): over all the runs on the configured notebook, runs
\* terminated at any point included, every page is published at most once.
C1_PublishedAtMostOnce ==
    \A p \in PageIds : published[p] <= 1

\* C1 (amended): a page is published at most once more than the number of
\* processes that ended - terminated, or with save_config failing - after
\* publishing it and without its identifier in the configuration file.
C1_PublishedOncePerLoss ==
    \A p \in PageIds : published[p] <= 1 + lost[p]

C1_Witness ==
    \E p, q \in PageIds :
        /\ published[p] = 2 /\ lost[p] = 1
        /\ published[q] = 1 /\ lost[q] = 0
        /\ Persists(p) /\ Persists(q)

\* C2: the export run that follows a run terminated between the publish of
\* page k and the end of save_config for k loads the configuration and has k
\* among its pending pages.
C2_RetriedAfterKill ==
    (mode = "export" /\ prev.run = "killed" /\ prev.owed # {}) =>
        /\ outcome # "load_error"
        /\ Exporting => prev.owed \subseteq PendingIds

\* C3: a page whose save_config completed before a run started, under the
\* notebook still configured, is not pending in that run and is neither
\* converted nor published by it.
C3_SavedPagesSkipped ==
    mode \in {"export", "dry"} =>
        /\ PendingIds \cap savedAtStart = {}
        /\ Range(convLog) \cap savedAtStart = {}
        /\ Published \cap savedAtStart = {}

C3_Witness ==
    /\ mode = "export" /\ pc = "summary"
    /\ prev.run = "killed" /\ prev.kept # {}
    /\ prev.kept \subseteq savedAtStart
    /\ Published # {}

\* C4: the load_config that follows a process terminated inside save_config
\* finds a complete configuration (the one before, or the new one), never an
\* empty or half-written file.
C4_LoadAfterKilledSave ==
    (pc \in {"load", "setup_load"} /\ prev.run = "killed" /\ prev.saving) =>
        load_config(CONFIG_FILE).res = "ok"

C6_NeverRemoved ==
    CONFIG_FILE.st = "json" =>
        everSaved[CONFIG_FILE.guid] \subseteq CONFIG_FILE.exported_pages

\* C6 (amended): the pages persisted since the configured notebook was
\* selected are all in the configuration file, whenever it is readable; the
\* set starts empty again each time setup selects another notebook.
C6_NeverRemovedWhileSelected ==
    CONFIG_FILE.st = "json" =>
        /\ saved.guid = CONFIG_FILE.guid
        /\ saved.pages \subseteq CONFIG_FILE.exported_pages

C6_Witness ==
    /\ pc = "idle" /\ outcome = "setup_done"
    /\ CONFIG_FILE.st = "json" /\ CONFIG_FILE.exported_pages # {}
    /\ saved.pages = CONFIG_FILE.exported_pages

\* the last save_config call of the run returned
LastSaveOk == saveLog # <<>> /\ saveLog[Len(saveLog)] \notin failed

C8_NumberIsDeclaredPosition ==
    /\ \A a, b \in 1..Len(pubLog) : a < b => pubLog[a][1] < pubLog[b][1]
    /\ \A k \in 1..Len(pubLog) :
          /\ pubLog[k][1] \in 1..Len(pages[config.guid])
          /\ pages[config.guid][pubLog[k][1]] = pubLog[k][2]

\* C8 (amended): entries are created in declared order and the number in the
\* body of each is the page's position among the declared entries that have an
\* identifier (the list get_page_list returns), whatever was exported or
\* skipped before.
C8_NumberIsResolvedPosition ==
    /\ \A a, b \in 1..Len(pubLog) : a < b => pubLog[a][1] < pubLog[b][1]
    /\ \A a, b \in 1..Len(convLog) : a < b =>
          \E x, y \in 1..Len(page_infos) :
              x < y /\ page_infos[x] = convLog[a] /\ page_infos[y] = convLog[b]
    /\ \A k \in 1..Len(pubLog) :
          /\ pubLog[k][1] \in 1..Len(page_infos)
          /\ get_page_list(pages[config.guid])[pubLog[k][1]] = pubLog[k][2]

C8_Witness ==
    /\ pc = "summary"
    /\ Len(page_infos) = 3
    /\ pubLog = <<<<2, page_infos[2]>>, <<3, page_infos[3]>>>>
    /\ page_infos[2] > page_infos[3]

\* a declared entry that has to be exported by a run that loaded `file`
Eligible(e) ==
    /\ e # NoId
    /\ e \notin fileAtStart.exported_pages
    /\ e \in rm[config.guid]

\* C9: the pending pages are the declared pages, in declared order, that are
\* not in the loaded exported set and have a stroke file; a declared page
\* without stroke file is never converted, published, marked exported or
\* counted as failed.
C9_PendingExactly ==
    /\ Exporting =>
          /\ PendingSeq = SelectSeq(pages[config.guid], Eligible)
          /\ \A k \in 1..Len(to_export) :
                page_infos[to_export[k].i + 1] = to_export[k].page_id
    /\ pc # "idle" /\ mode \in {"export", "dry"} /\ config.st = "json" =>
          \A p \in (Range(pages[config.guid]) \ {NoId}) \ rm[config.guid] :
              /\ p \notin Range(convLog) \cup Published \cup failed
              /\ p \notin exported
    /\ CONFIG_FILE.st = "json" =>
          CONFIG_FILE.exported_pages \subseteq rm[CONFIG_FILE.guid]

C9_Witness ==
    /\ pc = "summary"
    /\ \E p \in Range(page_infos) : p \notin rm[config.guid]
    /\ \E p \in Range(page_infos) : p \in fileAtStart.exported_pages
    /\ Published # {}
    /\ failed = {}

\* C10: a dry run calls neither the conversion tools nor the publish tool nor
\* save_config, and leaves the configuration file as it found it.
C10_DryRunPure ==
    mode = "dry" =>
        /\ ~Exporting
        /\ convLog = <<>> /\ pubLog = <<>> /\ saveLog = <<>>
        /\ CONFIG_FILE = fileAtStart

C10_Witness ==
    /\ mode = "dry" /\ pc = "idle" /\ outcome = "dry_run"
    /\ CONFIG_FILE.st = "json"

\* C11: when setup has completed, the configuration file holds the notebook
\* selected and the exported pages of the configuration the process found,
\* when there was one and it was for the same notebook, and no page otherwise.
C11_SetupCarryOver ==
    (mode = "setup" /\ pc = "idle" /\ outcome = "setup_done") =>
        /\ CONFIG_FILE.st = "json"
        /\ CONFIG_FILE.guid \in Guids
        /\ CONFIG_FILE.exported_pages =
              IF fileAtStart.st = "json" /\ fileAtStart.guid = CONFIG_FILE.guid
              THEN fileAtStart.exported_pages
              ELSE {}

C11_Witness ==
    /\ mode = "setup" /\ pc = "idle" /\ outcome = "setup_done"
    /\ fileAtStart.st = "json" /\ fileAtStart.exported_pages # {}
    /\ fileAtStart.guid # CONFIG_FILE.guid
    /\ CONFIG_FILE.exported_pages = {}

\* C12: a page counted as failed by an export run is not in the configuration
\* file when the run ends, and the pending pages of the export run that
\* follows, the store unchanged, are exactly the pages counted as failed.
C12_FailedLeftUnexported ==
    /\ pc = "summary" => \A p \in failed : ~Persists(p)
    /\ (mode = "export" /\ prev.run = "retry") =>
          /\ outcome \notin {"nothing", "load_error"}
          /\ Exporting => PendingIds = prev.failed

\* identifiers of the entries created by this process, in order of creation
PublishedSeq == [k \in 1..Len(pubLog) |-> pubLog[k][2]]

\* C13: save_config is called once for each page published, after the publish
\* returned and before the next pending page is converted, and for no other
\* page: when a page is about to be converted or published, or the loop has
\* ended, the calls made are those for the pages published so far, in order;
\* between a publish and its save_config call only that one call is missing.
C13_SaveOncePerPublished ==
    mode = "export" =>
        /\ pc \in {"convert", "publish", "dump", "summary"} => saveLog = PublishedSeq
        /\ pc = "save" =>
              /\ pubLog # <<>>
              /\ saveLog = SubSeq(PublishedSeq, 1, Len(pubLog) - 1)
              /\ pubLog[Len(pubLog)][2] = Current.page_id
        /\ \A a, b \in 1..Len(saveLog) : a # b => saveLog[a] # saveLog[b]
        /\ \A p \in failed : p \in Range(saveLog) => p \in Published

C13_Witness ==
    /\ mode = "export" /\ pc = "summary"
    /\ Len(saveLog) = 2
    /\ saveLog = PublishedSeq
    /\ failed \ Range(convLog) = {} /\ failed \ Published # {}

\* C14: a page that an export run has added to the exported set, in memory or
\* in the configuration file, was converted and then published by that run;
\* and every page in the configuration file has had an entry created.
C14_MarkedOnlyAfterPublish ==
    /\ (mode = "export" /\ pc \notin {"idle", "load"}) =>
          /\ exported \ fileAtStart.exported_pages \subseteq Published \cap Range(convLog)
          /\ config.exported_pages \ fileAtStart.exported_pages \subseteq Published
          /\ CONFIG_FILE.st = "json" =>
                CONFIG_FILE.exported_pages \ fileAtStart.exported_pages \subseteq Published
    /\ CONFIG_FILE.st = "json" =>
          \A p \in CONFIG_FILE.exported_pages : published[p] >= 1

C14_Witness ==
    /\ mode = "export" /\ pc = "summary"
    /\ fileAtStart.exported_pages # {}
    /\ CONFIG_FILE.st = "json"
    /\ CONFIG_FILE.exported_pages \ fileAtStart.exported_pages # {}
    /\ \E p \in failed : p \notin exported /\ p \in Range(convLog)

\* the configuration is absent, or the notebook it names has no metadata
\* descriptor or no readable content descriptor
FatalCondition ==
    \/ fileAtStart.st = "absent"
    \/ /\ fileAtStart.st = "json"
       /\ fileAtStart.guid \notin metadata \cap content

\* the notebook is there and has no page, or no page to export
NothingToDo ==
    /\ fileAtStart.st = "json"
    /\ fileAtStart.guid \in metadata \cap content
    /\ ComputeToExport(get_page_list(pages[fileAtStart.guid]),
                       fileAtStart.exported_pages, rm[fileAtStart.guid]) = <<>>

InExportRun == mode \in {"export", "dry"} /\ pc # "idle"

NoEffect ==
    /\ convLog = <<>> /\ pubLog = <<>> /\ saveLog = <<>>
    /\ CONFIG_FILE = fileAtStart

\* C15: an export run that meets a fatal condition invokes no tool, calls no
\* save_config, leaves the configuration file as it was and ends with a
\* non-zero exit status; one that finds no page or no pending page does
\* likewise and ends successfully.
C15_FatalBeforeAnyEffect ==
    /\ [](InExportRun /\ (FatalCondition \/ NothingToDo) => ~Exporting /\ NoEffect)
    /\ [][ (InExportRun /\ pc' = "idle" /\ outcome' # "crashed") =>
             /\ FatalCondition =>
                   /\ outcome' \in {"no_config", "notebook_missing", "content_error"}
                   /\ ExitCode(outcome') # 0
                   /\ CONFIG_FILE' = fileAtStart
             /\ NothingToDo =>
                   /\ outcome' \in {"no_pages", "nothing"}
                   /\ ExitCode(outcome') = 0
                   /\ CONFIG_FILE' = fileAtStart ]_vars

C15_Witness ==
    /\ mode = "export" /\ pc = "idle"
    /\ outcome \in {"notebook_missing", "content_error"}
    /\ CONFIG_FILE.st = "json" /\ CONFIG_FILE.exported_pages # {}
    /\ FatalCondition

\* the value the timestamp is read from: the misspelled key when the entry has
\* it, else the standard key
TimestampSource(p) == IF p.modifed # Missing THEN p.modifed ELSE p.modified

\* C16: for a declared entry with an identifier, get_page_list returns the
\* integer value of the misspelled key when present, else of the standard
\* key, and zero when there is neither or the value is not an integer; it
\* never raises.
C16_TimestampNeverFails ==
    (call.fn = "get_page_list" /\ result # NoResult /\ call.p.id # NoId) =>
        /\ result.res = "ok"
        /\ result.id = call.p.id
        /\ result.modified_ms =
              IF int(TimestampSource(call.p)).res = "ok"
              THEN int(TimestampSource(call.p)).n
              ELSE 0

\* The options of a command: what stands between the program and the
\* terminator, action verb and body that end it.
Options(cmd) == SubSeq(cmd, 2, Len(cmd) - 3)

\* position of a flag among the options, 0 when it is not there
Position(opts, flag) ==
    IF \E k \in 1..Len(opts) : opts[k] = flag
    THEN CHOOSE k \in 1..Len(opts) :
            opts[k] = flag /\ \A j \in 1..(k - 1) : opts[j] # flag
    ELSE 0

\* C17: the command create_dayone_entry builds ends with "--", "new" and the
\* body; before them come --journal and --date with their values, then --tags
\* with the tags, then --attachments with the attachment, each present when
\* its argument is given, so that the last variadic option is the one "--"
\* follows and the body is never among the values of an option.
C17_CommandWellOrdered ==
    (call.fn = "create_dayone_entry" /\ result # NoResult) =>
        LET cmd == result.cmd
            n == Len(cmd)
            a == call.args
            opts == Options(cmd)
            j == Position(opts, "--journal")
            d == Position(opts, "--date")
            t == Position(opts, "--tags")
            at == Position(opts, "--attachments")
        IN  /\ n >= 4
            /\ cmd[1] = DAYONE_BIN
            /\ cmd[n - 2] = "--" /\ cmd[n - 1] = "new" /\ cmd[n] = a.body_text
            /\ \A k \in 1..Len(opts) : opts[k] # "--"
            /\ (j # 0) = (a.journal # "")
            /\ (d # 0) = (a.date_str # "")
            /\ (t # 0) = (a.tags # <<>>)
            /\ (at # 0) = (a.attachment_path # "")
            /\ j # 0 => opts[j + 1] = a.journal
            /\ d # 0 => opts[d + 1] = a.date_str
            /\ t # 0 =>
                  /\ j < t /\ d < t
                  /\ SubSeq(opts, t + 1, t + Len(a.tags)) = a.tags
                  /\ at = 0 => t + Len(a.tags) = Len(opts)
            /\ at # 0 =>
                  /\ j < at /\ d < at /\ t < at
                  /\ t # 0 => at = t + Len(a.tags) + 1
                  /\ at + 1 = Len(opts)
                  /\ opts[at + 1] = a.attachment_path

C17_Witness ==
    /\ call.fn = "create_dayone_entry"
    /\ result.cmd = <<"/usr/local/bin/dayone", "--journal", "Journal",
                      "--date", "2024-03-01 10:00:00",
                      "--tags", "reMarkable", "Journal 1",
                      "--attachments", "page.png",
                      "--", "new", "Page 1 of Journal 1">>

\* pages in the configuration file that were not there when the process started
AddedToFile ==
    { p \in PageIds : Persists(p) /\ p \notin fileAtStart.exported_pages }

\* C18: when the loop of an export run has ended, the exported count and the
\* error count add up to the number of pending pages, and the exported count
\* is the number of pages the run added to the persisted exported set.
C18_CountsMatch ==
    (mode = "export" /\ pc = "summary") =>
        /\ exported_count + error_count = Len(to_export)
        /\ exported_count = Cardinality(AddedToFile)

\* pages for which an entry was created since the configured notebook was selected
EverPublished == { p \in PageIds : published[p] >= 1 }

\* C19: as long as no process was terminated and no save_config call failed,
\* every page has been published at most once since the configured notebook
\* was selected, and the exported set an export run loaded contains every page
\* published by the runs before it.
C19_SerialRunsPublishOnce ==
    intact =>
        /\ \A p \in PageIds : published[p] <= 1
        /\ (mode = "export" /\ pc \notin {"idle", "load"}) =>
              EverPublished \ Published \subseteq fileAtStart.exported_pages

C19_Witness ==
    /\ intact
    /\ mode = "export" /\ pc = "summary"
    /\ prev.run = "retry" /\ Published = prev.failed
    /\ EverPublished \ Published # {}
    /\ \A p \in EverPublished : published[p] = 1

\* every declared page of the configured notebook that has a stroke file is in
\* the configuration file
AllExported ==
    /\ CONFIG_FILE.st = "json"
    /\ \A p \in Range(get_page_list(pages[CONFIG_FILE.guid])) \cap rm[CONFIG_FILE.guid] :
          p \in CONFIG_FILE.exported_pages

\* C20: with export run again and again on an unchanged store and failures
\* that do not go on forever, once there is a configuration, from some point
\* on every declared page with a stroke file is in the configuration file and
\* every run ends with nothing pending; every run ends, and its loop has
\* then attempted each pending page once.
C20_EventuallyAllExported ==
    /\ [](CONFIG_FILE.st = "json" =>
            <>[](/\ AllExported
                 /\ ~Exporting
                 /\ outcome \in {"running", "nothing", "no_pages"}))
    /\ [](pc # "idle" => <>(pc = "idle"))
    /\ [](pc = "summary" => convLog = PendingSeq)

====
